---------------------------- MODULE Spec2Model ----------------------------
(***************************************************************************)
(* Batch drivers of the PDF-to-markdown toolkit.                           *)
(*                                                                         *)
(*   docling/01_docling_pdf_to_md.py      structure-aware driver           *)
(*   marker/01_marker_pdf_to_md_wrapper.py formatting-preserving driver    *)
(*   pymu/01_pymu_pdf_to_text.py          fast-extraction driver           *)
(*   pymu/utils/01_pymu_pdf_to_text_from_list.py  its from-list variant   *)
(*   pdf_to_markdown.py                   unified entry point              *)
(*                                                                         *)
(* A file name is a sequence of characters.  The text "_pages" and the     *)
(* extension (the last element: ".pdf", ".PDF", ".md", ".txt") are each    *)
(* kept as one element: no other element holds "_" or ".", so substring    *)
(* search, comparison and the split of stem and extension act on these     *)
(* sequences as they do on the strings.                                    *)
(***************************************************************************)
EXTENDS Integers, Sequences, FiniteSets, TLC

VARIABLES
    entry,        \* the script that is run: "docling", "marker", "pymu", "unified"
    driver,       \* the driver whose main this run entered, or "none"
    inputExists,  \* whether the input directory exists
    inputDir,     \* names of the files of the input directory
    outputDir,    \* names of the files of the output directory
    tmpExists,    \* marker: <input_dir>/tmp_batch exists
    tmpLinks,     \* marker: names of the links inside tmp_batch
    pc,           \* "idle", "pool", "cmd", "done", "crashed"
    args,         \* the parsed command line of the current run
    out0,         \* the output directory as the run found it
    cache,        \* pymu: the Manager dict, key -> True
    tasks,        \* the tasks handed to the pool / the batch, in order
    tstate,       \* position or outcome of each task
    report,       \* the per-file lines printed so far, <<file name, status>>
    count,        \* docling: the printed final count
    result,       \* how the run ended: "none", "exit0", "exit1", "raised"
    calls,        \* indices of the tasks the backend was invoked on in this run
    writes,       \* output files written in this run, one entry per open-for-write
    blocks,       \* pymu: extracted_text of each task that extracted, as its page labels
    msg,          \* the run-level message printed: "none", "input_missing", "nothing_to_do"
    cmdExit,      \* marker: "none", "zero", "nonzero", "nolaunch"
    nruns,        \* number of runs started
    prev,         \* the previous run: its arguments and whether it converted every PDF
    argv,         \* sys.argv of the process of the current run
    twin          \* one task given to process_pdf of both fast-extraction drivers

vars == <<entry, driver, inputExists, inputDir, outputDir, tmpExists, tmpLinks, pc, args,
          out0, cache, tasks, tstate, report, count, result, calls, writes,
          blocks, msg, cmdExit, nruns, prev, argv, twin>>

-----------------------------------------------------------------------------
(* Bounds of the model.                                                    *)

MaxRuns == 2

MaxBatch == 2

NumProcs == {1, 2}

PageArgs == {-1, 1, 12}

InputNames == { <<"a", ".pdf">>, <<"a", ".PDF">>, <<"a", "2", ".pdf">> }

Entries == {"docling", "marker", "pymu", "unified"}

-----------------------------------------------------------------------------
(* Strings.                                                                *)

\* The characters in code point order ('-' < '.' < digits < 'P' < '_' < letters).
Alphabet ==
    <<"-", ".PDF", ".md", ".pdf", ".txt", "0", "1", "2", "3", "4", "5", "6",
      "7", "8", "9", "_pages", "a", "b", "l">>

Rank(c) == CHOOSE i \in 1..Len(Alphabet) : Alphabet[i] = c

MinOf(x, y) == IF x <= y THEN x ELSE y

MaxOf(x, y) == IF x >= y THEN x ELSE y

\* s < t, as Python compares two strings.
StrLess(s, t) ==
    \/ \E i \in 1..MinOf(Len(s), Len(t)) :
          /\ Rank(s[i]) < Rank(t[i])
          /\ \A j \in 1..(i - 1) : s[j] = t[j]
    \/ /\ Len(s) < Len(t)
       /\ \A j \in 1..Len(s) : s[j] = t[j]

RECURSIVE Sorted(_)
\* sorted(S)
Sorted(S) ==
    IF S = {} THEN <<>>
    ELSE LET m == CHOOSE x \in S : \A y \in S \ {x} : StrLess(x, y)
         IN  <<m>> \o Sorted(S \ {m})

\* The orders in which os.listdir may return the names S.
Listings(S) ==
    { q \in [1..Cardinality(S) -> S] : \A i, j \in 1..Cardinality(S) : q[i] = q[j] => i = j }

RECURSIVE Digits(_)
Digits(n) ==
    IF n < 10 THEN <<Alphabet[Rank("0") + n]>>
    ELSE Digits(n \div 10) \o <<Alphabet[Rank("0") + (n % 10)]>>

\* str(n)
IntStr(n) == IF n < 0 THEN <<"-">> \o Digits(0 - n) ELSE Digits(n)

RECURSIVE Replace(_, _)
\* s.replace(p, ""), p not empty
Replace(s, p) ==
    IF Len(s) < Len(p) THEN s
    ELSE IF SubSeq(s, 1, Len(p)) = p
         THEN Replace(SubSeq(s, Len(p) + 1, Len(s)), p)
         ELSE <<s[1]>> \o Replace(Tail(s), p)

\* Path(f).stem, os.path.splitext(f)[0]
Stem(f) == SubSeq(f, 1, Len(f) - 1)

\* Path(f).suffix, os.path.splitext(f)[1]
Suffix(f) == f[Len(f)]

\* x.lower() of an extension
Lower(x) == IF x = ".PDF" THEN ".pdf" ELSE x

\* The input files every driver is meant to list: *.pdf, case-insensitive.
IsPdf(f) == Lower(Suffix(f)) = ".pdf"

\* q[:n]
PySlice(q, n) ==
    IF n >= 0 THEN SubSeq(q, 1, MinOf(n, Len(q)))
    ELSE SubSeq(q, 1, MaxOf(Len(q) + n, 0))

Range(q) == { q[i] : i \in 1..Len(q) }

-----------------------------------------------------------------------------
(* A run: what every driver shares.                                        *)

NoArgs == [converter |-> "none", deps |-> FALSE, pages |-> 0, batch |-> 0, procs |-> 0]

Terminal == {"success", "error", "escaped", "skipped"}

Active(i) == tstate[i] \in {"ready", "checked", "open", "extracted"}

AllDone == \A i \in 1..Len(tasks) : tstate[i] \in Terminal

\* The run that just ended converted every PDF of the input directory itself.
AllConverted ==
    /\ pc = "done"
    /\ inputExists
    /\ \A f \in inputDir :
          IsPdf(f) => \E i \in 1..Len(tasks) : tasks[i] = f /\ tstate[i] = "success"

\* A worker of the pool takes the next task of the queue.
CanPick(i) ==
    /\ pc = "pool"
    /\ i \in 1..Len(tasks)
    /\ tstate[i] = "queued"
    /\ \A j \in 1..(i - 1) : tstate[j] # "queued"
    /\ Cardinality({ j \in 1..Len(tasks) : Active(j) }) < args.procs

\* A run starts: the script is invoked with the command line a.
Begin(a) ==
    /\ pc \in {"idle", "done", "crashed"}
    /\ nruns < MaxRuns
    /\ nruns' = nruns + 1
    /\ args' = a
    /\ prev' = IF AllConverted
               THEN [args |-> args, complete |-> TRUE]
               ELSE [args |-> NoArgs, complete |-> FALSE]
    /\ out0' = outputDir
    /\ calls' = {}
    /\ writes' = {}
    /\ report' = <<>>
    /\ count' = 0
    /\ blocks' = <<>>
    /\ cmdExit' = "none"

Queue(q) == [i \in 1..Len(q) |-> "queued"]

SetState(i, s) == tstate' = [tstate EXCEPT ![i] = s]

\* sys.argv of the process that runs the script e with the command line a
ProcessArgv(e, a) ==
    IF e = "unified"
    THEN <<"pdf_to_markdown.py", "--converter", a.converter, "--input", "in",
           "--output", "out", "--batch_size", ToString(a.batch)>>
    ELSE <<e, "in", "out", ToString(a.batch)>>

\* run_marker_converter: the list it assigns to sys.argv
MarkerArgv(b) ==
    <<"marker_wrapper", "--input_dir", "/in", "--output_dir", "/out",
      "--batch_size", ToString(b), "--num_devices", "1", "--num_workers", "16">>

\* A finally clause that leaves sys.argv as the driver read it.
KeepArgv(saved, current) == current

\* run_marker_converter: finally: sys.argv = original_argv
RestoreArgv(saved, current) == saved

\* A task that process_pdf has not been applied to.
Pending == [outcome |-> "pending", cache |-> <<>>, out |-> {}, written |-> <<>>, text |-> <<>>]

\* No task is given to the two process_pdf.
NoTwin ==
    [file |-> <<>>, pages |-> 0, opens |-> FALSE, cache |-> <<>>, out |-> {},
     main |-> Pending, list |-> Pending]

-----------------------------------------------------------------------------
(* pymu/01_pymu_pdf_to_text.py                                             *)

\* process_pdf: pages_label
PagesLabel(n) == IF n < 0 THEN <<"a", "l", "l">> ELSE IntStr(n)

\* process_pdf: key
WorkerKey(f, n) == Stem(f) \o <<"_pages">> \o PagesLabel(n)

\* process_batch: key
BatchKey(f, n) == Stem(f) \o <<"_pages">> \o IntStr(n)

\* process_pdf: out_file
OutFile(key) == key \o <<".txt">>

\* The guard left out: the output file is never found.
OutFileExistsNever(out, key) == FALSE

\* process_pdf: out_file.exists()
OutFileExists(out, key) == OutFile(key) \in out

\* __main__: the key the preload derives from one file of the output directory
PreloadKey(f, n) ==
    Replace(Stem(f), <<"_pages">> \o IntStr(n)) \o <<"_pages">> \o IntStr(n)

\* __main__: shared_processed after the preload
Preload(out, n) ==
    [k \in { PreloadKey(f, n) : f \in { g \in out : Lower(Suffix(g)) = ".txt" } } |-> TRUE]

\* A worker that writes back its own copy of the map: the other keys are lost.
CachePutLost(c, k) == [x \in {k} |-> TRUE]

\* processed_cache[key] = True
CachePut(c, k) == [x \in (DOMAIN c) \cup {k} |-> IF x = k THEN TRUE ELSE c[x]]

\* process_batch: pdf_files
PymuPdfFiles(dir) == Sorted({ p \in dir : Lower(Suffix(p)) = ".pdf" })

\* process_batch: unprocessed_files
PymuUnprocessed(dir, c, n) ==
    LET NotCached(f) == BatchKey(f, n) \notin DOMAIN c
    IN  SelectSeq(PymuPdfFiles(dir), NotCached)

\* process_batch: files_to_process
PymuSelect(dir, c, n, b) == PySlice(PymuUnprocessed(dir, c, n), b)

\* __main__ and process_batch up to the creation of the pool.
PymuMain ==
    \E p \in PageArgs, b \in 0..MaxBatch, n \in NumProcs :
        /\ entry = "pymu"
        /\ Begin([converter |-> "pymu", deps |-> TRUE, pages |-> p, batch |-> b, procs |-> n])
        /\ argv' = ProcessArgv(entry, args')
        /\ cache' = Preload(outputDir, p)
        /\ IF inputExists
           THEN /\ tasks' = PymuSelect(inputDir, Preload(outputDir, p), p, b)
                /\ tstate' = Queue(PymuSelect(inputDir, Preload(outputDir, p), p, b))
                /\ pc' = "pool"
                /\ result' = "none"
           ELSE \* input_path.iterdir() raises FileNotFoundError
                /\ tasks' = <<>>
                /\ tstate' = <<>>
                /\ pc' = "crashed"
                /\ result' = "raised"
        /\ msg' = "none"
        /\ driver' = "pymu"
        /\ UNCHANGED <<twin, entry, inputExists, inputDir, outputDir, tmpExists, tmpLinks>>

\* process_pdf: the lookup in the shared cache
PymuLookup(i) ==
    /\ entry = "pymu"
    /\ CanPick(i)
    /\ IF WorkerKey(tasks[i], args.pages) \in DOMAIN cache
       THEN SetState(i, "skipped")
       ELSE SetState(i, "checked")
    /\ UNCHANGED <<twin, argv, entry, driver, blocks, inputExists, inputDir, outputDir, tmpExists, tmpLinks, pc, args,
                   out0, cache, tasks, report, count, result, calls, writes, msg,
                   cmdExit, nruns, prev>>

\* process_pdf: the output-file-exists guard
PymuExists(i) ==
    /\ entry = "pymu"
    /\ pc = "pool"
    /\ i \in 1..Len(tasks)
    /\ tstate[i] = "checked"
    /\ IF OutFileExists(outputDir, WorkerKey(tasks[i], args.pages))
       THEN /\ cache' = CachePut(cache, WorkerKey(tasks[i], args.pages))
            /\ SetState(i, "skipped")
       ELSE /\ cache' = cache
            /\ SetState(i, "open")
    /\ UNCHANGED <<twin, argv, entry, driver, blocks, inputExists, inputDir, outputDir, tmpExists, tmpLinks, pc, args,
                   out0, tasks, report, count, result, calls, writes, msg, cmdExit,
                   nruns, prev>>

\* doc.page_count of each document of the input directory
PageCount(f) ==
    IF f = <<"a", ".pdf">> THEN 2
    ELSE IF f = <<"a", ".PDF">> THEN 3
    ELSE 1

\* The cap by the document's length left out: one block per requested page.
PagesToReadNoCap(n, total) == IF n < 0 THEN total ELSE n

\* pages = min(pages_to_extract, total_pages) whatever the sign of the request.
PagesToReadMinOnly(n, total) == MaxOf(MinOf(n, total), 0)

\* process_pdf: pages
PagesToRead(n, total) == IF n < 0 THEN total ELSE MinOf(n, total)

\* process_pdf: extracted_text, each block "Page <i + 1>:..." by its label i + 1
ExtractedText(n, total) == [i \in 1..PagesToRead(n, total) |-> i]

\* process_pdf: fitz.open and the extraction of the pages; the backend may raise
PymuExtract(i) ==
    /\ entry = "pymu"
    /\ pc = "pool"
    /\ i \in 1..Len(tasks)
    /\ tstate[i] = "open"
    /\ calls' = calls \cup {i}
    /\ \/ /\ SetState(i, "extracted")
          /\ report' = report
          /\ blocks' = [j \in (DOMAIN blocks) \cup {i} |->
                           IF j = i THEN ExtractedText(args.pages, PageCount(tasks[i]))
                           ELSE blocks[j]]
       \/ /\ SetState(i, "error")
          /\ report' = Append(report, <<tasks[i], "error">>)
          /\ blocks' = blocks
    /\ UNCHANGED <<twin, argv, entry, driver, inputExists, inputDir, outputDir, tmpExists, tmpLinks, pc, args,
                   out0, cache, tasks, count, result, writes, msg, cmdExit, nruns, prev>>

\* process_pdf: the write of the output file and the update of the cache
PymuWrite(i) ==
    /\ entry = "pymu"
    /\ pc = "pool"
    /\ i \in 1..Len(tasks)
    /\ tstate[i] = "extracted"
    /\ outputDir' = outputDir \cup {OutFile(WorkerKey(tasks[i], args.pages))}
    /\ writes' = writes \cup {<<i, OutFile(WorkerKey(tasks[i], args.pages))>>}
    /\ cache' = CachePut(cache, WorkerKey(tasks[i], args.pages))
    /\ report' = Append(report, <<tasks[i], "success">>)
    /\ SetState(i, "success")
    /\ UNCHANGED <<twin, argv, entry, driver, blocks, inputExists, inputDir, tmpExists, tmpLinks, pc, args, out0,
                   tasks, count, result, calls, msg, cmdExit, nruns, prev>>

\* process_batch: pool.starmap returns, the script ends
PymuJoin ==
    /\ entry = "pymu"
    /\ pc = "pool"
    /\ AllDone
    /\ pc' = "done"
    /\ result' = "exit0"
    /\ UNCHANGED <<twin, argv, entry, driver, blocks, inputExists, inputDir, outputDir, tmpExists, tmpLinks, args,
                   out0, cache, tasks, tstate, report, count, calls, writes, msg,
                   cmdExit, nruns, prev>>

-----------------------------------------------------------------------------
(* docling/01_docling_pdf_to_md.py                                         *)

\* get_processed_files
GetProcessedFiles(out) == { Stem(f) : f \in { g \in out : Lower(Suffix(g)) = ".md" } }

\* process_file: output_path
DoclingOutput(f) == Stem(f) \o <<".md">>

\* main: files_to_process, from the listing q of the input directory
DoclingUnprocessed(q, out) ==
    LET IsPdfName(f) == Lower(Suffix(f)) = ".pdf"
        NotProcessed(f) == Stem(f) \notin GetProcessedFiles(out)
    IN  SelectSeq(SelectSeq(q, IsPdfName), NotProcessed)

\* main: the files of the tasks
DoclingSelect(q, out, b) ==
    PySlice(DoclingUnprocessed(q, out), MinOf(Len(DoclingUnprocessed(q, out)), b))

\* main up to the creation of the pool.
DoclingMain ==
    \E b \in 0..MaxBatch, n \in NumProcs, q \in Listings(inputDir) :
        /\ entry = "docling"
        /\ Begin([converter |-> "docling", deps |-> TRUE, pages |-> 0, batch |-> b, procs |-> n])
        /\ argv' = ProcessArgv(entry, args')
        /\ IF inputExists
           THEN /\ tasks' = DoclingSelect(q, outputDir, b)
                /\ tstate' = Queue(DoclingSelect(q, outputDir, b))
                /\ pc' = "pool"
                /\ result' = "none"
                /\ msg' = "none"
           ELSE \* "Input directory ... does not exist." and return
                /\ tasks' = <<>>
                /\ tstate' = <<>>
                /\ pc' = "done"
                /\ result' = "exit0"
                /\ msg' = "input_missing"
        /\ driver' = "docling"
        /\ UNCHANGED <<twin, entry, inputExists, inputDir, outputDir, tmpExists, tmpLinks, cache>>

\* process_file before its try: the imports and the construction of the converter.
\* An exception raised here leaves process_file.
DoclingSetup(i) ==
    /\ entry = "docling"
    /\ CanPick(i)
    /\ \/ SetState(i, "ready")
       \/ SetState(i, "escaped")
    /\ UNCHANGED <<twin, argv, entry, driver, blocks, inputExists, inputDir, outputDir, tmpExists, tmpLinks, pc, args,
                   out0, cache, tasks, report, count, result, calls, writes, msg,
                   cmdExit, nruns, prev>>

\* process_file, the try: convert, export, write; an exception becomes an error record.
DoclingConvert(i) ==
    /\ entry = "docling"
    /\ pc = "pool"
    /\ i \in 1..Len(tasks)
    /\ tstate[i] = "ready"
    /\ calls' = calls \cup {i}
    /\ \/ /\ outputDir' = outputDir \cup {DoclingOutput(tasks[i])}
          /\ writes' = writes \cup {<<i, DoclingOutput(tasks[i])>>}
          /\ SetState(i, "success")
       \/ /\ SetState(i, "error")
          /\ UNCHANGED <<outputDir, writes>>
    /\ UNCHANGED <<twin, argv, entry, driver, blocks, inputExists, inputDir, tmpExists, tmpLinks, pc, args, out0,
                   cache, tasks, report, count, result, msg, cmdExit, nruns, prev>>

\* main: the lines of the report, one per record the pool returned, in task order
DoclingLines == [i \in 1..Len(tasks) |-> <<tasks[i], tstate[i]>>]

\* main: processed_count
DoclingCount == Cardinality({ i \in 1..Len(tasks) : tstate[i] = "success" })

\* main: pool.map returns the records, or raises what escaped a task; then the report.
DoclingJoin ==
    /\ entry = "docling"
    /\ pc = "pool"
    /\ AllDone
    /\ IF \E i \in 1..Len(tasks) : tstate[i] = "escaped"
       THEN /\ pc' = "crashed"
            /\ result' = "raised"
            /\ UNCHANGED <<report, count>>
       ELSE /\ pc' = "done"
            /\ result' = "exit0"
            /\ report' = DoclingLines
            /\ count' = DoclingCount
    /\ UNCHANGED <<twin, argv, entry, driver, blocks, inputExists, inputDir, outputDir, tmpExists, tmpLinks, args,
                   out0, cache, tasks, tstate, calls, writes, msg, cmdExit, nruns, prev>>

-----------------------------------------------------------------------------
(* marker/01_marker_pdf_to_md_wrapper.py                                   *)

\* main: pdf_files, glob.glob("*.pdf") sorted; no match in a missing directory
MarkerPdfFiles(exists, dir) ==
    IF exists THEN Sorted({ f \in dir : Suffix(f) = ".pdf" }) ELSE <<>>

\* An output name that does not depend on the input file.
MarkerOutputShared(f) == <<"a", ".md">>

\* main: output_file
MarkerOutput(f) == Stem(f) \o <<".md">>

RECURSIVE MarkerLoop(_, _, _, _)
\* main: the loop over pdf_files, with its break
MarkerLoop(q, out, b, acc) ==
    IF q = <<>> THEN acc
    ELSE IF MarkerOutput(Head(q)) \notin out
         THEN IF Len(acc) + 1 >= b
              THEN Append(acc, Head(q))
              ELSE MarkerLoop(Tail(q), out, b, Append(acc, Head(q)))
         ELSE MarkerLoop(Tail(q), out, b, acc)

\* main: batch_files
MarkerSelect(exists, dir, out, b) == MarkerLoop(MarkerPdfFiles(exists, dir), out, b, <<>>)

\* main up to the external command, on the batch q: tmp_batch and its links.
\* os.symlink may raise; the links made before it stay.
MarkerPrepare(q) ==
    IF q = <<>>
    THEN /\ msg' = "nothing_to_do"
         /\ pc' = "done"
         /\ result' = "exit0"
         /\ UNCHANGED <<tmpExists, tmpLinks>>
    ELSE /\ msg' = "none"
         /\ tmpExists' = TRUE
         /\ \/ /\ tmpLinks' = tmpLinks \cup Range(q)
               /\ pc' = "cmd"
               /\ result' = "none"
            \/ \E k \in 1..Len(q) :
                  /\ q[k] \notin tmpLinks
                  /\ tmpLinks' = tmpLinks \cup Range(SubSeq(q, 1, k - 1))
                  /\ pc' = "crashed"
                  /\ result' = "raised"

MarkerMain ==
    \E b \in 0..MaxBatch :
        /\ entry = "marker"
        /\ Begin([converter |-> "marker", deps |-> TRUE, pages |-> 0, batch |-> b, procs |-> 1])
        /\ argv' = ProcessArgv(entry, args')
        /\ tasks' = MarkerSelect(inputExists, inputDir, outputDir, b)
        /\ tstate' = Queue(MarkerSelect(inputExists, inputDir, outputDir, b))
        /\ MarkerPrepare(MarkerSelect(inputExists, inputDir, outputDir, b))
        /\ driver' = "marker"
        /\ UNCHANGED <<twin, entry, inputExists, inputDir, outputDir, cache>>

\* What main returns to its caller: the script's exit, or pdf_to_markdown.main's return 0.
MarkerReturn == "exit0"

\* main: subprocess.run and what follows it.  The command converts the PDFs it finds
\* in tmp_batch, any of which may fail; its exit status is not read.
MarkerExecute ==
    /\ entry \in {"marker", "unified"}
    /\ pc = "cmd"
    /\ \/ \* the executable cannot be launched: subprocess.run raises
          /\ cmdExit' = "nolaunch"
          /\ pc' = "crashed"
          /\ result' = "raised"
          /\ UNCHANGED <<outputDir, tmpExists, tmpLinks, tstate, calls, writes>>
       \/ \E st \in {"zero", "nonzero"}, S \in SUBSET tmpLinks :
             /\ cmdExit' = st
             /\ calls' = { i \in 1..Len(tasks) : tasks[i] \in tmpLinks }
             /\ outputDir' = outputDir \cup { MarkerOutput(f) : f \in S }
             /\ writes' = { <<0, MarkerOutput(f)>> : f \in S }
             /\ tstate' = [i \in 1..Len(tasks) |->
                              IF tasks[i] \in S THEN "success" ELSE "error"]
             \* shutil.rmtree(tmp_input)
             /\ tmpExists' = FALSE
             /\ tmpLinks' = {}
             /\ pc' = "done"
             /\ result' = MarkerReturn
    \* run_marker_converter: the finally, when main was called by the unified entry point
    /\ argv' = IF entry = "unified" THEN RestoreArgv(ProcessArgv(entry, args), argv) ELSE argv
    /\ UNCHANGED <<twin, entry, driver, blocks, inputExists, inputDir, args, out0, cache, tasks, report, count,
                   msg, nruns, prev>>

-----------------------------------------------------------------------------
(* pdf_to_markdown.py                                                      *)

\* The names each driver module binds when it is executed under another name
\* than __main__.
ModuleNames(c) ==
    IF c = "docling" THEN {"os", "argparse", "multiprocessing", "get_processed_files",
                           "process_file", "main"}
    ELSE IF c = "marker" THEN {"os", "argparse", "subprocess", "glob", "shutil", "main"}
    ELSE {"os", "argparse", "fitz", "multiprocessing", "Path", "init_worker",
          "process_pdf", "process_batch"}

\* The names bound at the top level of pdf_to_markdown.py.
UnifiedGlobals ==
    {"os", "argparse", "sys", "subprocess", "Path", "check_dependencies",
     "run_docling_converter", "run_marker_converter", "run_pymu_converter", "main"}

\* The statements of a class body, <<target, name read>>: run_docling_converter's Args.
ArgsClassBody ==
    << <<"input", "input_abs">>, <<"output", "output_abs">>,
       <<"batch_size", "batch_size">>, <<"num_processes", "num_processes">> >>

\* A name read in a class body: a name the body also assigns is looked up in the
\* class namespace and then in the globals, never in the enclosing function.
ClassBodyReads(body, k, locals) ==
    LET assigned == { body[j][1] : j \in 1..Len(body) }
        bound == { body[j][1] : j \in 1..(k - 1) }
    IN  IF body[k][2] \in assigned
        THEN body[k][2] \in bound \cup UnifiedGlobals
        ELSE body[k][2] \in locals \cup UnifiedGlobals

\* run_docling_converter, run_marker_converter, run_pymu_converter up to the call of
\* the driver's main: TRUE when the call is reached.
ReachesDriver(c) ==
    /\ c = "docling" =>
          \A k \in 1..Len(ArgsClassBody) :
             ClassBodyReads(ArgsClassBody, k,
                 {"input_path", "output_path", "batch_size", "num_processes",
                  "input_abs", "output_abs"})
    /\ "main" \in ModuleNames(c)

\* main: os.makedirs(output), check_dependencies, the dispatch.
UnifiedMain ==
    \E c \in {"docling", "marker", "pymu"}, d \in BOOLEAN, b \in 0..MaxBatch :
        /\ entry = "unified"
        /\ Begin([converter |-> c, deps |-> d, pages |-> -1, batch |-> b, procs |-> 1])
        /\ IF ~d
           THEN /\ pc' = "done"
                /\ result' = "exit1"
                /\ msg' = "none"
                /\ tasks' = <<>>
                /\ tstate' = <<>>
                /\ UNCHANGED <<tmpExists, tmpLinks>>
           ELSE IF ~ReachesDriver(c)
           THEN /\ pc' = "crashed"
                /\ result' = "raised"
                /\ msg' = "none"
                /\ tasks' = <<>>
                /\ tstate' = <<>>
                /\ UNCHANGED <<tmpExists, tmpLinks>>
           ELSE \* only the marker driver is reached
                /\ c = "marker"
                /\ tasks' = MarkerSelect(inputExists, inputDir, outputDir, b)
                /\ tstate' = Queue(MarkerSelect(inputExists, inputDir, outputDir, b))
                /\ MarkerPrepare(MarkerSelect(inputExists, inputDir, outputDir, b))
        /\ driver' = (IF d /\ ReachesDriver(c) THEN c ELSE "none")
        \* run_marker_converter: sys.argv while marker_main runs, and the finally
        /\ argv' = IF d /\ ReachesDriver(c)
                   THEN IF pc' = "cmd"
                        THEN MarkerArgv(b)
                        ELSE RestoreArgv(ProcessArgv(entry, args'), MarkerArgv(b))
                   ELSE ProcessArgv(entry, args')
        /\ UNCHANGED <<twin, entry, inputExists, inputDir, outputDir, cache>>

-----------------------------------------------------------------------------

Init ==
    /\ entry \in Entries
    /\ driver = "none"
    /\ inputExists \in BOOLEAN
    /\ inputDir \in SUBSET InputNames
    /\ (~inputExists => inputDir = {})
    /\ outputDir = {}
    /\ tmpExists = FALSE
    /\ tmpLinks = {}
    /\ pc = "idle"
    /\ args = NoArgs
    /\ out0 = {}
    /\ cache = <<>>
    /\ tasks = <<>>
    /\ tstate = <<>>
    /\ report = <<>>
    /\ count = 0
    /\ result = "none"
    /\ calls = {}
    /\ writes = {}
    /\ blocks = <<>>
    /\ msg = "none"
    /\ cmdExit = "none"
    /\ nruns = 0
    /\ prev = [args |-> NoArgs, complete |-> FALSE]
    /\ argv = <<>>
    /\ twin = NoTwin

Next ==
    \/ DoclingMain
    \/ \E i \in 1..Len(tasks) : DoclingSetup(i)
    \/ \E i \in 1..Len(tasks) : DoclingConvert(i)
    \/ DoclingJoin
    \/ MarkerMain
    \/ MarkerExecute
    \/ UnifiedMain
    \/ PymuMain
    \/ \E i \in 1..Len(tasks) : PymuLookup(i)
    \/ \E i \in 1..Len(tasks) : PymuExists(i)
    \/ \E i \in 1..Len(tasks) : PymuExtract(i)
    \/ \E i \in 1..Len(tasks) : PymuWrite(i)
    \/ PymuJoin

Spec == Init /\ [][Next]_vars

-----------------------------------------------------------------------------
(* process_pdf of pymu/01_pymu_pdf_to_text.py and of                       *)
(* pymu/utils/01_pymu_pdf_to_text_from_list.py, applied to one task.       *)

\* The values of --pages given to process_pdf.
PdfPages == PageArgs \cup {0}

\* from-list process_pdf: key
ListKey(f, n) == Stem(f) \o <<"_pages">> \o IntStr(n)

\* from-list process_pdf: pages
ListPagesToRead(n, total) == MinOf(n, total)

\* from-list process_pdf: extracted_text, each block by its label i + 1
ListExtractedText(n, total) == [i \in 1..ListPagesToRead(n, total) |-> i]

\* The body the two process_pdf share, from the cache lookup to the update of the
\* cache, for the key and the page blocks each of them computes; opens tells
\* whether fitz.open succeeds on the document.
ProcessPdfBody(key, text, c, out, opens) ==
    IF key \in DOMAIN c
    THEN [outcome |-> "skipped", cache |-> c, out |-> out, written |-> <<>>, text |-> <<>>]
    ELSE IF OutFileExists(out, key)
    THEN [outcome |-> "skipped", cache |-> CachePut(c, key), out |-> out,
          written |-> <<>>, text |-> <<>>]
    ELSE IF ~opens
    THEN [outcome |-> "error", cache |-> c, out |-> out, written |-> <<>>, text |-> <<>>]
    ELSE [outcome |-> "converted", cache |-> CachePut(c, key),
          out |-> out \cup {OutFile(key)}, written |-> OutFile(key), text |-> text]

\* process_pdf of the main driver
MainProcessPdf(f, n, c, out, opens) ==
    ProcessPdfBody(WorkerKey(f, n), ExtractedText(n, PageCount(f)), c, out, opens)

\* process_pdf of the from-list driver
ListProcessPdf(f, n, c, out, opens) ==
    ProcessPdfBody(ListKey(f, n), ListExtractedText(n, PageCount(f)), c, out, opens)

\* The keys the two process_pdf look up for the file f and the page count n.
TwinKeys(f, n) == {WorkerKey(f, n), ListKey(f, n)}

\* The tasks and the states of cache and output directory they are applied in:
\* any file, any page count, each of the two keys cached or not, each of the
\* two output files present or not.
TwinInputs ==
    UNION { { [file |-> t[1], pages |-> t[2], opens |-> o, cache |-> [k \in K |-> TRUE],
               out |-> D, main |-> Pending, list |-> Pending] :
                o \in BOOLEAN,
                K \in SUBSET TwinKeys(t[1], t[2]),
                D \in SUBSET { OutFile(k) : k \in TwinKeys(t[1], t[2]) } } :
            t \in InputNames \X PdfPages }

InitPdf ==
    /\ twin \in TwinInputs
    /\ entry = "pymu"
    /\ driver = "none"
    /\ inputExists = TRUE
    /\ inputDir = {}
    /\ outputDir = {}
    /\ tmpExists = FALSE
    /\ tmpLinks = {}
    /\ pc = "idle"
    /\ args = NoArgs
    /\ out0 = {}
    /\ cache = <<>>
    /\ tasks = <<>>
    /\ tstate = <<>>
    /\ report = <<>>
    /\ count = 0
    /\ result = "none"
    /\ calls = {}
    /\ writes = {}
    /\ blocks = <<>>
    /\ msg = "none"
    /\ cmdExit = "none"
    /\ nruns = 0
    /\ prev = [args |-> NoArgs, complete |-> FALSE]
    /\ argv = <<>>

\* The main driver's process_pdf is applied to the task.
MainStep ==
    /\ twin.main.outcome = "pending"
    /\ twin' = [twin EXCEPT !.main =
                   MainProcessPdf(twin.file, twin.pages, twin.cache, twin.out, twin.opens)]
    /\ UNCHANGED <<entry, driver, inputExists, inputDir, outputDir, tmpExists, tmpLinks, pc,
                   args, out0, cache, tasks, tstate, report, count, result, calls, writes,
                   blocks, msg, cmdExit, nruns, prev, argv>>

\* The from-list driver's process_pdf is applied to the task.
ListStep ==
    /\ twin.list.outcome = "pending"
    /\ twin' = [twin EXCEPT !.list =
                   ListProcessPdf(twin.file, twin.pages, twin.cache, twin.out, twin.opens)]
    /\ UNCHANGED <<entry, driver, inputExists, inputDir, outputDir, tmpExists, tmpLinks, pc,
                   args, out0, cache, tasks, tstate, report, count, result, calls, writes,
                   blocks, msg, cmdExit, nruns, prev, argv>>

NextPdf == MainStep \/ ListStep

SpecPdf == InitPdf /\ [][NextPdf]_vars

-----------------------------------------------------------------------------
(* Properties.                                                             *)

\* The run is over.
Ended == pc \in {"done", "crashed"}

\* The Work Selector of a driver ran in this run.
SelectorRan == pc # "idle" /\ driver # "none" /\ inputExists

\* The output file the driver of this run writes for the input f.
OwnOutput(f) ==
    IF driver = "pymu" THEN OutFile(WorkerKey(f, args.pages))
    ELSE IF driver = "docling" THEN DoclingOutput(f)
    ELSE MarkerOutput(f)

\* The input files the driver of this run lists.
Listed == { f \in inputDir : IF driver = "marker" THEN Suffix(f) = ".pdf" ELSE IsPdf(f) }

\* The files the driver of this run takes as unprocessed, given the output
\* directory it found.
UnprocessedSet ==
    IF driver = "pymu"
    THEN Range(PymuUnprocessed(inputDir, Preload(out0, args.pages), args.pages))
    ELSE IF driver = "docling"
    THEN Range(DoclingUnprocessed(Sorted(inputDir), out0))
    ELSE { f \in Range(MarkerPdfFiles(inputExists, inputDir)) : MarkerOutput(f) \notin out0 }

\* C1: when the previous run, with the same arguments, converted every PDF of the
\* input directory, the current run invokes the backend on no file and writes no
\* output file.
C1_Idempotent ==
    (pc # "idle" /\ prev.complete /\ prev.args = args) => (calls = {} /\ writes = {})

\* C1, its case: a second run with the same arguments that was handed tasks (the
\* files of a complete first run) and ended.
C1_Witness ==
    /\ pc = "done"
    /\ prev.complete
    /\ prev.args = args
    /\ inputDir # {}
    /\ tasks # <<>>

\* C2: an input PDF whose own output file was in the output directory when the run
\* started is not among the tasks of the run.
C2_ConvertedNotScheduled ==
    SelectorRan => \A i \in 1..Len(tasks) : OwnOutput(tasks[i]) \notin out0

\* C3: when the batch limit did not cut the list, every listed input PDF that had
\* no output file of its own when the run started is among the tasks.
C3_NoWorkSkipped ==
    (SelectorRan /\ Len(tasks) < args.batch) =>
        \A f \in Listed : OwnOutput(f) \notin out0 => f \in Range(tasks)

\* C4: with more unprocessed files than batch_size, the tasks are the first
\* batch_size files of the sorted unprocessed list.
C4_SortedPrefix ==
    (SelectorRan /\ Cardinality(UnprocessedSet) > args.batch) =>
        tasks = SubSeq(Sorted(UnprocessedSet), 1, args.batch)

\* C5: in the worker-pool drivers, once the run is over, every task ran to its end
\* and every task whose backend call raised is in the report with status error
\* and its file name.
C5_ErrorContained ==
    (driver \in {"docling", "pymu"} /\ Ended) =>
        \A i \in 1..Len(tasks) :
            tstate[i] = "error" =>
                /\ \A j \in 1..Len(tasks) : tstate[j] \in Terminal
                /\ <<tasks[i], "error">> \in Range(report)

\* C6: in the structure-aware driver no exception leaves a task: the run ends
\* with one record per task in the report and the final count printed.
C6_NothingEscapes ==
    (driver = "docling" /\ inputExists) =>
        /\ \A i \in 1..Len(tasks) : tstate[i] # "escaped"
        /\ pc # "crashed"
        /\ (Ended => Len(report) = Len(tasks))

\* C7: in the fast-extraction driver every key of the processed-set names an
\* output file that exists.
C7_KeyHasFile ==
    (driver = "pymu" /\ pc # "idle") => \A k \in DOMAIN cache : OutFile(k) \in outputDir

\* C8: every file the fast-extraction driver writes for an input is named
\* <stem>_pages<N>.txt with N the --pages argument, the key of the Work Selector.
C8_OutputName ==
    driver = "pymu" =>
        \A w \in writes : w[2] = OutFile(BatchKey(tasks[w[1]], args.pages))

\* C9: when a run of the formatting-preserving driver that made tmp_batch is over,
\* tmp_batch does not exist.
C9_TmpRemoved ==
    (driver = "marker" /\ Ended /\ tasks # <<>>) => ~tmpExists

\* C10: the unified entry point runs the driver of the chosen converter and returns
\* 0 when the dependency check passes; it returns 1 and runs no driver when the
\* check fails.
C10_Dispatch ==
    (entry = "unified" /\ Ended) =>
        IF args.deps
        THEN driver = args.converter /\ result = "exit0"
        ELSE driver = "none" /\ result = "exit1"

\* The tasks of a fast-extraction run that wrote their output.
PymuWritten == { i \in 1..Len(tasks) : driver = "pymu" /\ tstate[i] = "success" }

\* C11: a successful task of the fast-extraction driver writes T blocks when N < 0
\* and min(N, T) blocks when N >= 0, labelled Page 1: to Page k: in page order.
C11_PageSelection ==
    \A i \in PymuWritten :
        LET T == PageCount(tasks[i])
            N == args.pages
            k == IF N < 0 THEN T ELSE IF N <= T THEN N ELSE T
        IN  /\ Len(blocks[i]) = k
            /\ \A j \in 1..k : blocks[i][j] = j

\* C11, its cases: a run that wrote a whole document (N < 0, 2 pages or more).
C11_Witness ==
    \E i \in PymuWritten : args.pages < 0 /\ PageCount(tasks[i]) >= 2 /\ pc = "done"

\* C12 as stated: N > 0 requested pages give exactly N blocks, whatever the document.
C12_ExactlyN ==
    \A i \in PymuWritten : args.pages > 0 => Len(blocks[i]) = args.pages

\* C12 amended: N > 0 requested pages give exactly N blocks when the document has
\* at least N pages, and one block per page of the document when it has fewer.
C12_AtMostN ==
    \A i \in PymuWritten :
        args.pages > 0 =>
            /\ PageCount(tasks[i]) >= args.pages => Len(blocks[i]) = args.pages
            /\ PageCount(tasks[i]) < args.pages => Len(blocks[i]) = PageCount(tasks[i])

\* C12, its cases: a document shorter than the request was written.
C12_Witness ==
    \E i \in PymuWritten : args.pages > PageCount(tasks[i]) /\ pc = "done"

\* The keys the workers of this run inserted: a task that wrote its output or was
\* skipped has its key in the set (lines 27, 35, 59).
InsertedKeys ==
    { WorkerKey(tasks[i], args.pages) :
        i \in { j \in 1..Len(tasks) : tstate[j] \in {"success", "skipped"} } }

\* C13: during a run of the fast-extraction driver no key leaves the processed-set
\* or changes its marker, and once the pool has joined, every preloaded key and
\* every key a worker inserted is in the set.
C13_NoLostUpdate ==
    /\ [][nruns' = nruns =>
            \A k \in DOMAIN cache : k \in DOMAIN cache' /\ cache'[k] = cache[k]]_vars
    /\ []((driver = "pymu" /\ pc = "done") =>
            /\ DOMAIN Preload(out0, args.pages) \subseteq DOMAIN cache
            /\ InsertedKeys \subseteq DOMAIN cache
            /\ \A k \in DOMAIN cache : cache[k] = TRUE)

\* C13, its case: two workers, a preloaded key and two keys inserted by two tasks.
C13_Witness ==
    /\ driver = "pymu"
    /\ pc = "done"
    /\ args.procs = 2
    /\ Preload(out0, args.pages) # <<>>
    /\ Cardinality({ i \in 1..Len(tasks) : tstate[i] = "success" }) = 2
    /\ Cardinality(InsertedKeys) = 2

\* The positions of a task of process_pdf past the cache lookup and the
\* output-file-exists guard.
PastGuards == {"open", "extracted", "success", "error"}

\* C14: in a run of the fast-extraction driver each output file is written by at
\* most one task, and two tasks with the same key are never both past the cache
\* lookup and the output-file-exists guard.
C14_DisjointWrites ==
    driver = "pymu" =>
        /\ \A w1, w2 \in writes : w1[2] = w2[2] => w1[1] = w2[1]
        /\ \A i, j \in 1..Len(tasks) :
              (/\ i # j
               /\ WorkerKey(tasks[i], args.pages) = WorkerKey(tasks[j], args.pages)
               /\ tstate[i] \in PastGuards)
              => tstate[j] \notin PastGuards

\* C15: once a run of the structure-aware driver is over, the report holds one
\* line per task, in task order, and the final count is the number of tasks that
\* succeeded.
C15_ReportOrder ==
    (driver = "docling" /\ Ended /\ inputExists) =>
        /\ Len(report) = Len(tasks)
        /\ \A i \in 1..Len(tasks) : report[i][1] = tasks[i]
        /\ count = Cardinality({ i \in 1..Len(tasks) : tstate[i] = "success" })

\* C15 in the runs whose report is printed (no exception left a task).
C15_ReportWhenPrinted ==
    (driver = "docling" /\ pc = "done" /\ inputExists) =>
        /\ report = [i \in 1..Len(tasks) |-> <<tasks[i], tstate[i]>>]
        /\ count = Cardinality({ i \in 1..Len(tasks) : tstate[i] = "success" })

\* C16: with no input directory, a run ends as a reported setup error: the
\* directory-not-found message, no exception, no task.
C16_MissingInputReported ==
    (driver # "none" /\ ~inputExists /\ pc # "idle") =>
        /\ msg = "input_missing"
        /\ result # "raised"
        /\ pc # "crashed"
        /\ tasks = <<>>

\* C17: with an empty output directory and a batch limit that does not cut the
\* list, the tasks are the input files whose name ends in .pdf, in any case.
C17_CaseInsensitive ==
    (SelectorRan /\ out0 = {} /\ Len(tasks) < args.batch) =>
        Range(tasks) = { f \in inputDir : IsPdf(f) }

\* Every conversion attempt of this run succeeded.
AttemptsSucceeded ==
    /\ result # "raised"
    /\ \A i \in 1..Len(tasks) : tstate[i] \notin {"error", "escaped"}

\* The listed input files that had no output file when this run started.
LackedOutput == { f \in Listed : OwnOutput(f) \notin out0 }

\* C18: a completed run with batch_size >= 1 whose attempts all succeeded, and
\* that started with a listed input PDF lacking its output, gave at least one
\* such file its output.
C18_Progress ==
    (/\ driver # "none" /\ pc = "done" /\ inputExists
     /\ args.batch >= 1
     /\ AttemptsSucceeded
     /\ LackedOutput # {})
    => \E f \in LackedOutput : OwnOutput(f) \in outputDir

\* The files the Work Selector of the driver of this run would take as
\* unprocessed if it ran now with the same arguments.
NextUnprocessed ==
    IF driver = "pymu"
    THEN Range(PymuUnprocessed(inputDir, Preload(outputDir, args.pages), args.pages))
    ELSE Range(DoclingUnprocessed(Sorted(inputDir), outputDir))

\* C19: when a run of the structure-aware or fast-extraction driver is over, a
\* task whose backend raised wrote no file, and the next run's Work Selector
\* takes its file as unprocessed.
C19_FailedNotDone ==
    (driver \in {"docling", "pymu"} /\ Ended) =>
        \A i \in 1..Len(tasks) :
            tstate[i] = "error" =>
                /\ \A w \in writes : w[1] # i
                /\ tasks[i] \in NextUnprocessed

\* C20: when the formatting-preserving driver starts the external command,
\* tmp_batch holds links to exactly the files of this run's batch.
C20_ExactLinks ==
    (driver = "marker" /\ pc = "cmd") => tmpLinks = Range(tasks)

\* The files of this run's batch for which no <stem>.md exists.
FailedInBatch == { f \in Range(tasks) : Stem(f) \o <<".md">> \notin outputDir }

\* The external command of the formatting-preserving driver has exited.
CommandExited == driver = "marker" /\ cmdExit \in {"zero", "nonzero"}

\* C21: in the formatting-preserving driver the run completes normally whether
\* the command exits with zero or non-zero status, and every batch file left
\* without <stem>.md is in the batch of the next run of the driver.
C21_Reselected ==
    /\ [](CommandExited => (pc = "done" /\ result = "exit0"))
    /\ [][(CommandExited /\ nruns' = nruns + 1 /\ driver' = "marker")
            => FailedInBatch \subseteq Range(tasks')]_vars

\* C21, for a next run whose batch size is at least the number of batch files
\* left without <stem>.md.
C21_ReselectedWithinBatch ==
    /\ [](CommandExited => (pc = "done" /\ result = "exit0"))
    /\ [][(/\ CommandExited /\ nruns' = nruns + 1 /\ driver' = "marker"
           /\ Cardinality(FailedInBatch) <= args'.batch)
            => FailedInBatch \subseteq Range(tasks')]_vars

\* The command exited with non-zero status having converted one file of a batch
\* of two, and another run can follow.
C21_Witness ==
    /\ CommandExited /\ cmdExit = "nonzero" /\ pc = "done"
    /\ Len(tasks) = 2
    /\ Cardinality(FailedInBatch) = 1
    /\ nruns < MaxRuns

\* C23: once run_docling_converter, run_marker_converter or run_pymu_converter
\* has returned or raised, sys.argv is the list the unified entry point was
\* started with.
C23_ArgvUnchanged ==
    (entry = "unified" /\ args.deps /\ Ended) => argv = ProcessArgv(entry, args)

\* run_marker_converter replaced sys.argv, marker's main raised on the launch of
\* the command, and sys.argv is the original list again.
C23_Witness ==
    /\ entry = "unified" /\ driver = "marker"
    /\ pc = "crashed" /\ cmdExit = "nolaunch"
    /\ MarkerArgv(args.batch) # ProcessArgv(entry, args)
    /\ argv = ProcessArgv(entry, args)

\* C22: applied to the same file, page count, cache and output directory, the
\* from-list process_pdf skips, converts or fails exactly when the main driver's
\* does, and writes the same output file name with the same page blocks.
C22_SamePerTask ==
    (twin.main.outcome # "pending" /\ twin.list.outcome # "pending") =>
        /\ twin.list.outcome = twin.main.outcome
        /\ twin.list.written = twin.main.written
        /\ twin.list.text = twin.main.text

\* C22 for page counts that are not negative.
C22_SameFromZero ==
    (twin.main.outcome # "pending" /\ twin.list.outcome # "pending" /\ twin.pages >= 0) =>
        /\ twin.list.outcome = twin.main.outcome
        /\ twin.list.written = twin.main.written
        /\ twin.list.text = twin.main.text
        /\ twin.list.cache = twin.main.cache

=============================================================================
